---- MODULE Spec2Model ----
(***************************************************************************)
(* react-attractor: the tether store of TetherProvider (a WeakMap from DOM *)
(* element to TetherMetadata, one per provider instance), the accessor     *)
(* hook useTetherContext, and the withTether higher-order component.       *)
(*                                                                         *)
(* JavaScript values are modelled as records carrying a `type` field, so   *)
(* that null, undefined and objects are distinct and comparable.           *)
(***************************************************************************)
EXTENDS Integers, Sequences, FiniteSets, TLC

\* Number of DOM elements, and of instances of the wrapped component: every
\* instance creates one element when it mounts.
MaxElems == 2

\* Number of components the application wraps with withTether.
MaxComponents == 2

\* --------------------------------------------------------------- values

Undefined == [type |-> "undefined"]
Null == [type |-> "null"]
Element(i) == [type |-> "element", id |-> i]
Elements == {Element(i) : i \in 1..MaxElems}

\* What a caller can pass where an Element is expected.
ElementArgs == Elements \cup {Null, Undefined}

\* JavaScript truthiness of the values that occur as element arguments.
Falsy(v) == v.type \in {"null", "undefined"}

\* Only objects can be WeakMap keys.
CanBeHeldWeakly(v) == v.type \in {"element", "object"}

\* User metadata values (tetherMetadata).
UserMeta(n, c) == [type |-> "object", userId |-> n, category |-> c]

\* The empty props object.
EmptyProps == [k \in {} |-> "x"]

\* TetherMetadata: { props, metadata? }.
TetherMetadata(props, metadata) == [props |-> props, metadata |-> metadata]

\* Records passed to registerTether by direct callers.
TetherRecords ==
  { TetherMetadata([label |-> "Hello World", color |-> "#ff6b6b"],
                   UserMeta(123, "greeting")),
    TetherMetadata([k \in {"label"} |-> "Hello World"], Undefined) }

\* --------------------------------------------------------------- WeakMap

\* A WeakMap is a function whose domain is the set of keys it holds.
NewWeakMap == [k \in {} |-> Undefined]

WeakMapGet(map, key) == IF key \in DOMAIN map THEN map[key] ELSE Undefined

\* Variant: keys are compared by structure instead of identity, so a set on
\* one element also lands on every element that looks the same.
WeakMapSet_ByStructure(map, key, value) ==
  IF CanBeHeldWeakly(key)
    THEN [threw |-> FALSE,
          map |-> [k \in DOMAIN map \cup {key} |->
                     IF k.type = key.type THEN value ELSE map[k]]]
    ELSE [threw |-> TRUE, map |-> map]

\* WeakMap.prototype.set throws a TypeError for a key that is not an object.
WeakMapSet(map, key, value) ==
  IF CanBeHeldWeakly(key)
    THEN [threw |-> FALSE,
          map |-> [k \in DOMAIN map \cup {key} |-> IF k = key THEN value ELSE map[k]]]
    ELSE [threw |-> TRUE, map |-> map]

\* The keys a map keeps alive. A WeakMap holds its keys weakly: none.
\* Variant: a Map, which holds every key strongly.
WeakMapRetains_StrongKeys(map) == DOMAIN map
WeakMapRetains(map) == {}

\* The map once the garbage collector has reclaimed the objects in `dead`:
\* the entries of reclaimed keys are gone.
WeakMapSweep(map, dead) == [k \in DOMAIN map \ dead |-> map[k]]

\* --------------------------------------------------------------- providers

\* Two provider instances. A position in the tree is the sequence of the
\* providers enclosing it, outermost first; <<>> is outside every provider.
Providers == {"P", "Q"}

\* Where a provider instance can be rendered: P at the top, Q beside P or
\* inside P.
ProviderPlaces(p) == IF p = "Q" THEN {<<>>, <<"P">>} ELSE {<<>>}

\* Positions in the tree where a component can be rendered.
Places ==
  {<<>>} \cup UNION {{Append(place, p) : place \in ProviderPlaces(p)} : p \in Providers}

\* The instances of the component returned by withTether; instance i owns
\* the DOM element Element(i).
Instances == 1..MaxElems

VARIABLES
  mounted,       \* the provider instances currently mounted
  providerPlace, \* the position where each mounted provider instance is rendered
  tetherMapRef,  \* tetherMapRef.current of each provider instance
  registered,    \* history: per provider, the last record passed to registerTether for each element
  lastCall,      \* the last hook or accessor call made by application code and its outcome
  inst,          \* the instances of the component returned by withTether
  hocs           \* the components withTether has returned so far

vars == <<mounted, providerPlace, tetherMapRef, registered, lastCall, inst, hocs>>

\* --------------------------------------------------------------- TetherProvider

\* Variant: an element that already has a record keeps it.
registerTether_KeepFirst(map, element, metadata) ==
  IF Falsy(element) \/ element \in DOMAIN map
    THEN [threw |-> FALSE, map |-> map]
    ELSE WeakMapSet(map, element, metadata)

\* Variant: the new record is merged into the one already held.
registerTether_Merge(map, element, metadata) ==
  IF Falsy(element)
    THEN [threw |-> FALSE, map |-> map]
    ELSE IF element \in DOMAIN map
      THEN LET old == map[element] IN
             WeakMapSet(map, element,
               [props |-> [k \in DOMAIN old.props \cup DOMAIN metadata.props |->
                            IF k \in DOMAIN metadata.props
                              THEN metadata.props[k] ELSE old.props[k]],
                metadata |-> IF metadata.metadata = Undefined
                               THEN old.metadata ELSE metadata.metadata])
      ELSE WeakMapSet(map, element, metadata)

\* Variant: no guard against a missing element.
registerTether_NoNullCheck(map, element, metadata) == WeakMapSet(map, element, metadata)

\* Variant: the store holds one record at a time.
registerTether_SingleSlot(map, element, metadata) ==
  IF Falsy(element)
    THEN [threw |-> FALSE, map |-> map]
    ELSE WeakMapSet(NewWeakMap, element, metadata)

\* Variant: each record is stamped with the number of registrations made for
\* its element.
registerTether_CountsRegistrations(map, element, metadata) ==
  IF Falsy(element)
    THEN [threw |-> FALSE, map |-> map]
    ELSE WeakMapSet(map, element,
           [props |-> metadata.props, metadata |-> metadata.metadata,
            registrations |-> IF element \in DOMAIN map
                                   /\ "registrations" \in DOMAIN map[element]
                                THEN map[element]["registrations"] + 1 ELSE 1])

\* registerTether of a provider whose map is `map`.
registerTether(map, element, metadata) ==
  IF Falsy(element)
    THEN [threw |-> FALSE, map |-> map]
    ELSE WeakMapSet(map, element, metadata)

\* Variant: the lookup ignores which element is asked for.
getTether_IgnoresKey(map, element) ==
  IF DOMAIN map = {} THEN Undefined ELSE map[CHOOSE k \in DOMAIN map : TRUE]

\* getTether of a provider whose map is `map`.
getTether(map, element) == WeakMapGet(map, element)

\* useContext(TetherContext) at a position: the value of the nearest enclosing
\* TetherContext.Provider, or the default value null.
NoContext == "null"

\* Variant: the context has a default store instead of null.
useContext_DefaultStore(place) == IF place = <<>> THEN "P" ELSE place[Len(place)]

\* Variant: the outermost provider wins.
useContext_Outermost(place) == IF place = <<>> THEN NoContext ELSE place[1]
useContext(place) == IF place = <<>> THEN NoContext ELSE place[Len(place)]

\* useTetherContext at a position.
useTetherContext(place) ==
  LET context == useContext(place) IN
    IF context = NoContext
      THEN [threw |-> TRUE,
            error |-> "useTetherContext must be used within a TetherProvider",
            context |-> NoContext]
      ELSE [threw |-> FALSE, error |-> "", context |-> context]

\* --------------------------------------------------------------- withTether

\* Variant: a missing metadata prop defaults to an empty object.
tetherMetadata_DefaultsToObject(props) ==
  IF "tetherMetadata" \in DOMAIN props THEN props["tetherMetadata"]
                                     ELSE [type |-> "object"]

\* const { tetherMetadata, ...restProps } = props
tetherMetadata(props) ==
  IF "tetherMetadata" \in DOMAIN props THEN props["tetherMetadata"] ELSE Undefined

\* Variant: the metadata prop is not stripped.
restProps_KeepsAll(props) == props
restProps(props) == [k \in DOMAIN props \ {"tetherMetadata"} |-> props[k]]

\* Variant: a falsy metadata value is dropped (tetherMetadata || undefined).
finalMetadata_DropsFalsy(props) ==
  TetherMetadata(restProps(props),
                 IF tetherMetadata(props).type \in {"null", "undefined"}
                      \/ tetherMetadata(props) \in
                           {[type |-> "string", value |-> ""],
                            [type |-> "number", value |-> 0],
                            [type |-> "boolean", value |-> FALSE]}
                   THEN Undefined ELSE tetherMetadata(props))

\* const finalMetadata = { props: restProps, metadata: tetherMetadata }
finalMetadata(props) == TetherMetadata(restProps(props), tetherMetadata(props))

\* No function: the ref of an instance that has none, the empty memo cell.
NoCallback == Null

\* A dependency array holds, for each entry, its value and whether the entry
\* is an object allocated by the render that built the array.
\* Variant: finalMetadata is missing from the dependency array.
tetherRefDeps_MissingMetadata(p, metadata) == <<[value |-> p, fresh |-> FALSE]>>

\* [registerTether, finalMetadata]: registerTether of provider p is the same
\* function on every render, finalMetadata is a new object literal.
tetherRefDeps(p, metadata) ==
  <<[value |-> p, fresh |-> FALSE], [value |-> metadata, fresh |-> TRUE]>>

\* Object.is(a, b) for dependency entries, b built by the current render: an
\* object allocated by the current render is identical to no earlier one.
ObjectIs(a, b) == ~b.fresh /\ a.value = b.value

\* React compares dependency arrays entry by entry with Object.is.
areHookInputsEqual(prevDeps, nextDeps) ==
  /\ Len(prevDeps) = Len(nextDeps)
  /\ \A k \in 1..Len(nextDeps) : ObjectIs(prevDeps[k], nextDeps[k])

\* Variant: the function of the first render is kept whatever the
\* dependencies.
useCallback_KeepsFirst(memo, fn, deps) ==
  IF memo # NoCallback
    THEN [memo EXCEPT !.fresh = FALSE]
    ELSE [fn |-> fn, deps |-> deps, fresh |-> TRUE]

\* React's useCallback: the memoized function is returned while the
\* dependencies are equal, else the function of this render. `fresh` tells
\* whether the returned function was created by this render.
useCallback(memo, fn, deps) ==
  IF memo # NoCallback /\ areHookInputsEqual(memo.deps, deps)
    THEN [memo EXCEPT !.fresh = FALSE]
    ELSE [fn |-> fn, deps |-> deps, fresh |-> TRUE]

\* The body of TetheredComponent at `place` with incoming `props`; `memo` is
\* the instance's useCallback cell. Returns the new memo cell and the props
\* given to WrappedComponent, or the error thrown by the hook.
TetheredComponent(memo, place, props) ==
  LET ctx == useTetherContext(place) IN
    IF ctx.threw
      THEN [threw |-> TRUE, error |-> ctx.error, tetherRef |-> NoCallback,
            componentProps |-> EmptyProps]
      ELSE
        LET tetherRef ==
              useCallback(memo,
                          [registerTether |-> ctx.context,
                           finalMetadata |-> finalMetadata(props)],
                          tetherRefDeps(ctx.context, finalMetadata(props)))
            componentProps ==
              [k \in DOMAIN restProps(props) \cup {"ref"} |->
                 IF k = "ref" THEN tetherRef ELSE restProps(props)[k]]
        IN [threw |-> FALSE, error |-> "", tetherRef |-> tetherRef,
            componentProps |-> componentProps]

\* JavaScript strings.
String(s) == [type |-> "string", value |-> s]

\* JavaScript numbers and booleans.
Number(n) == [type |-> "number", value |-> n]
Boolean(b) == [type |-> "boolean", value |-> b]

\* ToBoolean: undefined, null, the empty string, 0 and false are falsy.
ToBoolean(v) ==
  /\ ~Falsy(v)
  /\ ~(v.type = "string" /\ v.value = "")
  /\ ~(v.type = "number" /\ v.value = 0)
  /\ ~(v.type = "boolean" /\ v.value = FALSE)

\* a || b
LogicalOr(a, b) == IF ToBoolean(a) THEN a ELSE b

\* a ?? b
NullishCoalescing(a, b) == IF Falsy(a) THEN b ELSE a

\* ToString of a value interpolated into a template literal.
ToStringJS(v) == IF v.type = "string" THEN v.value ELSE v.type

\* Components passed to withTether: components made by forwardRef are objects
\* without a name property, function components have the name of their
\* function, empty for an anonymous one; displayName is optional.
WrappedComponents ==
  {[kind |-> "forwardRef", displayName |-> d, name |-> Undefined] :
     d \in {Undefined, String(""), String("SimpleBox"), String("ColoredBox")}}
  \cup
  {[kind |-> "function", displayName |-> d, name |-> n] :
     d \in {Undefined, String(""), String("SimpleBox"), String("ColoredBox")},
     n \in {String(""), String("Box"), String("Card")}}

\* Variant: ?? in place of ||.
displayName_NullishCoalescing(WrappedComponent) ==
  String("withTether("
         \o ToStringJS(NullishCoalescing(NullishCoalescing(WrappedComponent.displayName,
                                                         WrappedComponent.name),
                                       String("Component")))
         \o ")")

\* TetheredComponent.displayName
displayName(WrappedComponent) ==
  String("withTether("
         \o ToStringJS(LogicalOr(LogicalOr(WrappedComponent.displayName,
                                         WrappedComponent.name),
                               String("Component")))
         \o ")")

\* Props with a tetherMetadata prop added.
WithMetadata(props, m) ==
  [k \in DOMAIN props \cup {"tetherMetadata"} |->
     IF k = "tetherMetadata" THEN m ELSE props[k]]

\* Props passed to the component returned by withTether.
IncomingProps ==
  { WithMetadata([label |-> "Hello World", color |-> "#ff6b6b"],
                 UserMeta(123, "greeting")),
    WithMetadata([k \in {"label"} |-> "Test Label"], UserMeta(123, "test")),
    [k \in {"label"} |-> "Test Label"] }

\* Values an application may pass as tetherMetadata.
MetadataValues ==
  { Null, Undefined, Number(0), Boolean(FALSE), String(""), UserMeta(123, "test") }

\* Props whose tetherMetadata is any of these values, or is left out.
MetadataProps ==
  { WithMetadata([k \in {"label"} |-> "Test Label"], m) : m \in MetadataValues }
    \cup { [k \in {"label"} |-> "Test Label"] }

\* --------------------------------------------------------------- state

\* lastCall: op is what was called, provider the provider whose accessor
\* ran, previous what that provider held for the element before the call.
NoCall == [op |-> "none", provider |-> NoContext, element |-> Undefined,
           previous |-> Undefined, result |-> Undefined, threw |-> FALSE, error |-> ""]

\* The hook threw: nothing after it in the caller ran.
HookThrew(op, ctx) == [NoCall EXCEPT !.op = op, !.threw = TRUE, !.error = ctx.error]

\* An instance that has not been rendered. phase is "new", "rendered" (a
\* render awaits its commit), "committed", "unmounted" or "reclaimed" (its
\* element has been garbage collected); attached is the ref
\* React last attached to the element; rerendered tells whether the instance
\* was rendered again after its mount.
NoInstance == [phase |-> "new", place |-> <<>>, props |-> EmptyProps,
               memo |-> NoCallback, componentProps |-> EmptyProps,
               element |-> Null, attached |-> NoCallback, rerendered |-> FALSE]

Init ==
  /\ mounted = {}
  /\ providerPlace = [p \in Providers |-> <<>>]
  /\ tetherMapRef = [p \in Providers |-> NewWeakMap]
  /\ registered = [p \in Providers |-> NewWeakMap]
  /\ lastCall = NoCall
  /\ inst = [i \in Instances |-> NoInstance]
  /\ hocs = {}

\* The position of the children of the mounted provider p.
ChildrenPlace(p) == Append(providerPlace[p], p)

\* A position exists when it is the top level or the position of the children
\* of a mounted provider.
PlaceExists(place) ==
  place = <<>> \/ \E p \in mounted : ChildrenPlace(p) = place

\* Variant: one map shared by every provider instance.
RegisterVia_SharedMap(S, p, element, metadata) ==
  LET r == registerTether(S.maps[p], element, metadata) IN
    [maps |-> [q \in Providers |-> registerTether(S.maps[q], element, metadata).map],
     reg |-> IF element \in Elements
               THEN [S.reg EXCEPT ![p] =
                      [k \in DOMAIN @ \cup {element} |->
                         IF k = element THEN metadata ELSE @[k]]]
               ELSE S.reg,
     threw |-> r.threw, calls |-> 1]

\* The stores and the history after registerTether(element, metadata) of
\* provider p, starting from S = [maps, reg]; calls is the number of
\* registerTether calls made.
RegisterVia(S, p, element, metadata) ==
  LET r == registerTether(S.maps[p], element, metadata) IN
    [maps |-> [S.maps EXCEPT ![p] = r.map],
     reg |-> IF element \in Elements
               THEN [S.reg EXCEPT ![p] =
                      [k \in DOMAIN @ \cup {element} |->
                         IF k = element THEN metadata ELSE @[k]]]
               ELSE S.reg,
     threw |-> r.threw, calls |-> 1]

\* Variant: the element test is inverted.
InvokeRef_Inverted(S, ref, element) ==
  IF ref # NoCallback /\ Falsy(element)
    THEN RegisterVia(S, ref.fn.registerTether, element, ref.fn.finalMetadata)
    ELSE [maps |-> S.maps, reg |-> S.reg, threw |-> FALSE, calls |-> 0]

\* tetherRef(element): the ref callback `ref` invoked by React.
InvokeRef(S, ref, element) ==
  IF ref # NoCallback /\ ~Falsy(element)
    THEN RegisterVia(S, ref.fn.registerTether, element, ref.fn.finalMetadata)
    ELSE [maps |-> S.maps, reg |-> S.reg, threw |-> FALSE, calls |-> 0]

\* --------------------------------------------------------------- actions
\* Variant: the map lives at module level and every provider instance that
\* mounts picks it up as it is.
MountProvider_ModuleLevelMap(p, place) ==
  /\ p \notin mounted
  /\ PlaceExists(place)
  /\ mounted' = mounted \cup {p}
  /\ providerPlace' = [providerPlace EXCEPT ![p] = place]
  /\ UNCHANGED <<tetherMapRef, registered, lastCall, inst, hocs>>

\* A TetherProvider instance mounts at `place`: useRef(new WeakMap()).
MountProvider(p, place) ==
  /\ p \notin mounted
  /\ PlaceExists(place)
  /\ mounted' = mounted \cup {p}
  /\ providerPlace' = [providerPlace EXCEPT ![p] = place]
  /\ tetherMapRef' = [tetherMapRef EXCEPT ![p] = NewWeakMap]
  /\ registered' = [registered EXCEPT ![p] = NewWeakMap]
  /\ UNCHANGED <<lastCall, inst, hocs>>

\* Application code in a component at `place` calls useTetherContext() and
\* then registerTether(element, metadata).
CallRegisterTether(place, element, metadata) ==
  /\ PlaceExists(place)
  /\ LET ctx == useTetherContext(place) IN
       IF ctx.threw
         THEN /\ lastCall' = HookThrew("useTetherContext", ctx)
              /\ UNCHANGED <<tetherMapRef, registered>>
         ELSE LET r == RegisterVia([maps |-> tetherMapRef, reg |-> registered],
                                   ctx.context, element, metadata)
              IN /\ tetherMapRef' = r.maps
                 /\ registered' = r.reg
                 /\ lastCall' = [op |-> "registerTether", provider |-> ctx.context,
                                 element |-> element,
                                 previous |-> getTether(tetherMapRef[ctx.context], element),
                                 result |-> Undefined, threw |-> r.threw, error |-> ""]
  /\ UNCHANGED <<mounted, providerPlace, inst, hocs>>

\* Variant: a lookup that misses stores an empty record for the element.
CallGetTether_StoresMiss(place, element) ==
  /\ PlaceExists(place)
  /\ LET ctx == useTetherContext(place) IN
       IF ctx.threw
         THEN /\ lastCall' = HookThrew("useTetherContext", ctx)
              /\ UNCHANGED tetherMapRef
         ELSE /\ lastCall' = [op |-> "getTether", provider |-> ctx.context,
                              element |-> element,
                              previous |-> getTether(tetherMapRef[ctx.context], element),
                              result |-> getTether(tetherMapRef[ctx.context], element),
                              threw |-> FALSE, error |-> ""]
              /\ tetherMapRef' =
                   IF element \in Elements /\ element \notin DOMAIN tetherMapRef[ctx.context]
                     THEN [tetherMapRef EXCEPT ![ctx.context] =
                             WeakMapSet(@, element,
                                        TetherMetadata(EmptyProps, Undefined)).map]
                     ELSE tetherMapRef
  /\ UNCHANGED <<mounted, providerPlace, registered, inst, hocs>>

\* Variant: the lookup rejects a key that is not an object, as set does.
CallGetTether_ThrowsOnNonObject(place, element) ==
  /\ PlaceExists(place)
  /\ LET ctx == useTetherContext(place) IN
       IF ctx.threw
         THEN lastCall' = HookThrew("useTetherContext", ctx)
         ELSE lastCall' = [op |-> "getTether", provider |-> ctx.context,
                           element |-> element,
                           previous |-> getTether(tetherMapRef[ctx.context], element),
                           result |-> getTether(tetherMapRef[ctx.context], element),
                           threw |-> element \notin Elements,
                           error |-> IF element \in Elements THEN ""
                                     ELSE "Invalid value used as weak map key"]
  /\ UNCHANGED <<mounted, providerPlace, tetherMapRef, registered, inst, hocs>>

\* Application code in a component at `place` calls useTetherContext() and
\* then getTether(element).
CallGetTether(place, element) ==
  /\ PlaceExists(place)
  /\ LET ctx == useTetherContext(place) IN
       IF ctx.threw
         THEN lastCall' = HookThrew("useTetherContext", ctx)
         ELSE lastCall' = [op |-> "getTether", provider |-> ctx.context,
                           element |-> element,
                           previous |-> getTether(tetherMapRef[ctx.context], element),
                           result |-> getTether(tetherMapRef[ctx.context], element),
                           threw |-> FALSE, error |-> ""]
  /\ UNCHANGED <<mounted, providerPlace, tetherMapRef, registered, inst, hocs>>

\* React renders a new instance of the wrapped component at `place`.
RenderMount(i, place, props) ==
  /\ inst[i].phase = "new"
  /\ PlaceExists(place)
  /\ LET r == TetheredComponent(NoCallback, place, props) IN
       IF r.threw
         THEN /\ lastCall' = HookThrew("render", r)
              /\ UNCHANGED inst
         ELSE /\ inst' = [inst EXCEPT ![i] =
                    [phase |-> "rendered", place |-> place, props |-> props,
                     memo |-> r.tetherRef, componentProps |-> r.componentProps,
                     element |-> Null, attached |-> NoCallback,
                     rerendered |-> FALSE]]
              /\ UNCHANGED lastCall
  /\ UNCHANGED <<mounted, providerPlace, tetherMapRef, registered, hocs>>

\* React renders a mounted instance again with `props`.
Rerender(i, props) ==
  /\ inst[i].phase = "committed"
  /\ LET r == TetheredComponent(inst[i].memo, inst[i].place, props) IN
       inst' = [inst EXCEPT ![i].phase = "rendered", ![i].props = props,
                            ![i].memo = r.tetherRef,
                            ![i].componentProps = r.componentProps,
                            ![i].rerendered = TRUE]
  /\ UNCHANGED <<mounted, providerPlace, tetherMapRef, registered, lastCall, hocs>>

\* React commits the render of instance i: the root element is created on
\* mount, and when the ref prop is not the function attached so far, the old
\* ref is called with null and the new one with the element.
Commit(i) ==
  /\ inst[i].phase = "rendered"
  /\ LET isMount == inst[i].element = Null
         element == IF isMount THEN Element(i) ELSE inst[i].element
         ref == inst[i].componentProps["ref"]
         S0 == [maps |-> tetherMapRef, reg |-> registered]
         S1 == IF isMount \/ ref.fresh
                 THEN InvokeRef(InvokeRef(S0, inst[i].attached, Null), ref, element)
                 ELSE S0
     IN /\ tetherMapRef' = S1.maps
        /\ registered' = S1.reg
        /\ inst' = [inst EXCEPT ![i].phase = "committed", ![i].element = element,
                                ![i].attached = ref]
  /\ UNCHANGED <<mounted, providerPlace, lastCall, hocs>>

\* Variant: unmounting removes the record of the instance's element.
Unmount_Unregisters(i) ==
  /\ inst[i].phase \in {"rendered", "committed"}
  /\ tetherMapRef' = [p \in Providers |-> WeakMapSweep(tetherMapRef[p], {inst[i].element})]
  /\ registered' = registered
  /\ inst' = [inst EXCEPT ![i] =
        [NoInstance EXCEPT !.phase = "unmounted", !.place = inst[i].place,
                           !.element = inst[i].element]]
  /\ UNCHANGED <<mounted, providerPlace, lastCall, hocs>>

\* React unmounts instance i: the attached ref is called with null. The
\* element is detached and stays referenced by the application.
Unmount(i) ==
  /\ inst[i].phase \in {"rendered", "committed"}
  /\ LET S1 == InvokeRef([maps |-> tetherMapRef, reg |-> registered],
                         inst[i].attached, Null)
     IN /\ tetherMapRef' = S1.maps
        /\ registered' = S1.reg
  /\ inst' = [inst EXCEPT ![i] =
        [NoInstance EXCEPT !.phase = "unmounted", !.place = inst[i].place,
                           !.element = inst[i].element]]
  /\ UNCHANGED <<mounted, providerPlace, lastCall, hocs>>

\* Whether the position `place` lies inside provider p.
Inside(place, p) == \E k \in 1..Len(place) : place[k] = p

\* The stores and the history after React has called the attached ref of each
\* instance in `is` with null.
RECURSIVE DetachAll(_, _)
DetachAll(S, is) ==
  IF is = {}
    THEN S
    ELSE LET i == CHOOSE j \in is : TRUE
             S1 == InvokeRef(S, inst[i].attached, Null)
         IN DetachAll([maps |-> S1.maps, reg |-> S1.reg], is \ {i})

\* Variant: the map is built in the body of the component, so every render
\* of the provider starts over with a new one.
updateRef_Reinitialises(current, initialValue) == initialValue

\* useRef(initialValue) on a re-render: the argument is ignored and the ref
\* object made by the mount, with its current value, is returned.
updateRef(current, initialValue) == current

\* The TetherProvider instance p renders again: useRef returns the ref of the
\* mount and the two useCallback([]) accessors stay the same functions, while
\* contextValue is a new object, so React renders again, with their current
\* props, the mounted wrapped components that read the context of p.
RerenderProvider(p) ==
  /\ p \in mounted
  /\ tetherMapRef' = [tetherMapRef EXCEPT ![p] = updateRef(@, NewWeakMap)]
  /\ inst' = [i \in Instances |->
                IF inst[i].phase = "committed" /\ useContext(inst[i].place) = p
                  THEN LET r == TetheredComponent(inst[i].memo, inst[i].place,
                                                  inst[i].props)
                       IN [inst[i] EXCEPT !.phase = "rendered",
                                          !.memo = r.tetherRef,
                                          !.componentProps = r.componentProps,
                                          !.rerendered = TRUE]
                  ELSE inst[i]]
  /\ UNCHANGED <<mounted, providerPlace, registered, lastCall, hocs>>

\* The TetherProvider instance p unmounts, and its subtree with it: the
\* wrapped components and the providers rendered inside it. The hooks of p,
\* its tetherMapRef among them, are dropped; nothing is removed from the map.
UnmountProvider(p) ==
  /\ p \in mounted
  /\ LET gone == {i \in Instances : /\ inst[i].phase \in {"rendered", "committed"}
                                    /\ Inside(inst[i].place, p)}
         S1 == DetachAll([maps |-> tetherMapRef, reg |-> registered], gone)
     IN /\ tetherMapRef' = S1.maps
        /\ registered' = S1.reg
        /\ inst' = [i \in Instances |->
                      IF i \in gone
                        THEN [NoInstance EXCEPT !.phase = "unmounted",
                                                !.place = inst[i].place,
                                                !.element = inst[i].element]
                        ELSE inst[i]]
  /\ mounted' = mounted \ ({p} \cup {q \in mounted : Inside(providerPlace[q], p)})
  /\ UNCHANGED <<providerPlace, lastCall, hocs>>

\* The elements something other than the garbage collector's candidates
\* keeps alive: the rendered tree holds the elements of mounted instances,
\* and a store holds what its map retains.
StronglyHeld ==
  {inst[i].element : i \in {j \in Instances : inst[j].phase \in {"rendered", "committed"}}}
    \cup UNION {WeakMapRetains(tetherMapRef[p]) : p \in Providers}

\* The application drops its last reference to the detached element of the
\* unmounted instance i and the garbage collector reclaims the element.
Reclaim(i) ==
  /\ inst[i].phase = "unmounted"
  /\ inst[i].element # Null
  /\ inst[i].element \notin StronglyHeld
  /\ tetherMapRef' = [p \in Providers |-> WeakMapSweep(tetherMapRef[p], {inst[i].element})]
  /\ inst' = [inst EXCEPT ![i].phase = "reclaimed"]
  /\ UNCHANGED <<mounted, providerPlace, registered, lastCall, hocs>>

\* withTether(WrappedComponent): returns the enhanced component, named after
\* the wrapped one.
WithTether(WrappedComponent) ==
  /\ Cardinality(hocs) < MaxComponents
  /\ hocs' = hocs \cup {[wrapped |-> WrappedComponent,
                          displayName |-> displayName(WrappedComponent)]}
  /\ UNCHANGED <<mounted, providerPlace, tetherMapRef, registered, lastCall, inst>>

\* The accessors used directly by application code, and wrapped components
\* rendered outside every provider.
Next ==
  \/ \E p \in Providers : \E place \in ProviderPlaces(p) : MountProvider(p, place)
  \/ \E place \in Places, e \in ElementArgs, m \in TetherRecords :
       CallRegisterTether(place, e, m)
  \/ \E place \in Places, e \in ElementArgs : CallGetTether(place, e)
  \/ \E i \in Instances, props \in IncomingProps : RenderMount(i, <<>>, props)

Spec == Init /\ [][Next]_vars

\* The life cycle of wrapped components under the providers.
WrapNext ==
  \/ \E p \in Providers : \E place \in ProviderPlaces(p) : MountProvider(p, place)
  \/ \E i \in Instances, place \in Places \ {<<>>}, props \in IncomingProps :
       RenderMount(i, place, props)
  \/ \E i \in Instances, props \in IncomingProps : Rerender(i, props)
  \/ \E i \in Instances : Commit(i)
  \/ \E i \in Instances : Unmount(i)
  \/ \E i \in Instances : Reclaim(i)

WrapSpec == Init /\ [][WrapNext]_vars

\* The life cycle of the providers: they mount and unmount while wrapped
\* components mount under them.
LifeNext ==
  \/ \E p \in Providers : \E place \in ProviderPlaces(p) : MountProvider(p, place)
  \/ \E p \in Providers : UnmountProvider(p)
  \/ \E i \in Instances, place \in Places \ {<<>>}, props \in IncomingProps :
       RenderMount(i, place, props)
  \/ \E i \in Instances : Commit(i)
  \/ \E place \in Places, e \in ElementArgs : CallGetTether(place, e)

LifeSpec == Init /\ [][LifeNext]_vars

\* Mounted providers render again while wrapped components mount under them.
ProviderRenderNext ==
  \/ \E p \in Providers : \E place \in ProviderPlaces(p) : MountProvider(p, place)
  \/ \E p \in Providers : RerenderProvider(p)
  \/ \E i \in Instances, place \in Places \ {<<>>}, props \in IncomingProps :
       RenderMount(i, place, props)
  \/ \E i \in Instances : Commit(i)

ProviderRenderSpec == Init /\ [][ProviderRenderNext]_vars

\* Wrapped components are mounted with any metadata value.
MetadataNext ==
  \/ \E p \in Providers : \E place \in ProviderPlaces(p) : MountProvider(p, place)
  \/ \E i \in Instances, place \in Places \ {<<>>}, props \in MetadataProps :
       RenderMount(i, place, props)
  \/ \E i \in Instances : Commit(i)

MetadataSpec == Init /\ [][MetadataNext]_vars

\* Module scope: the application wraps its components.
HocNext == \E W \in WrappedComponents : WithTether(W)

HocSpec == Init /\ [][HocNext]_vars

TypeOK ==
  /\ mounted \subseteq Providers
  /\ \A p \in mounted : providerPlace[p] \in ProviderPlaces(p)
  /\ \A p \in Providers : DOMAIN tetherMapRef[p] \subseteq Elements
  /\ \A i \in Instances :
       /\ inst[i].phase \in {"new", "rendered", "committed", "unmounted", "reclaimed"}
       /\ inst[i].phase \in {"rendered", "committed"} => PlaceExists(inst[i].place)
       /\ inst[i].element \in {Null, Element(i)}

\* --------------------------------------------------------------- properties

\* The record a wrapped component given `props` is expected to register.
ExpectedRecord(props) ==
  [props |-> [k \in DOMAIN props \ {"tetherMetadata"} |-> props[k]],
   metadata |-> IF "tetherMetadata" \in DOMAIN props
                  THEN props["tetherMetadata"] ELSE Undefined]

\* The provider directly enclosing a position inside some provider.
Enclosing(place) == place[Len(place)]

\* The store of the provider enclosing instance i.
StoreOf(i) == tetherMapRef[Enclosing(inst[i].place)]

\* C1: a getTether(e) on provider P directly after registerTether(e, m) on P,
\* e non-null, returns exactly m.
C1_RoundTrip ==
  [][\A m \in TetherRecords :
       (/\ lastCall'.op = "registerTether"
        /\ lastCall'.element \in Elements
        /\ CallRegisterTether(ChildrenPlace(lastCall'.provider), lastCall'.element, m))
         => getTether(tetherMapRef'[lastCall'.provider], lastCall'.element) = m]_vars

\* A registration of a record for an element has just run and the provider
\* returns that record for the element.
C1_Witness ==
  /\ lastCall.op = "registerTether"
  /\ lastCall.element \in Elements
  /\ lastCall.element \in DOMAIN registered[lastCall.provider]
  /\ getTether(tetherMapRef[lastCall.provider], lastCall.element)
       = registered[lastCall.provider][lastCall.element]

\* C2: after a later registerTether(e, m2) replaced m1, every getTether(e) on
\* that provider returns m2 only, until another registration for e: the props
\* are m2's props, key for key, and the metadata is m2's metadata.
C2_OverwriteNoMerge ==
  \A p \in Providers : \A e \in DOMAIN registered[p] :
    LET got == getTether(tetherMapRef[p], e)
        m2 == registered[p][e]
    IN /\ got # Undefined
       /\ DOMAIN got.props = DOMAIN m2.props
       /\ \A k \in DOMAIN m2.props : got.props[k] = m2.props[k]
       /\ got.metadata = m2.metadata

\* A record with metadata and a color prop has just been replaced by one with
\* undefined metadata and no color prop.
C2_Witness ==
  /\ lastCall.op = "registerTether"
  /\ lastCall.element \in Elements
  /\ lastCall.previous # Undefined
  /\ lastCall.previous.metadata # Undefined
  /\ "color" \in DOMAIN lastCall.previous.props
  /\ LET got == getTether(tetherMapRef[lastCall.provider], lastCall.element) IN
       /\ got # Undefined
       /\ got.metadata = Undefined
       /\ "color" \notin DOMAIN got.props

\* C3: getTether(e) returns undefined for every element never registered on
\* that provider, whatever was registered for other elements.
C3_NeverRegisteredAbsent ==
  \A p \in Providers : \A e \in Elements :
    e \notin DOMAIN registered[p] => getTether(tetherMapRef[p], e) = Undefined

\* A getTether for an unregistered element returned undefined on a provider
\* that holds a record for another element.
C3_Witness ==
  /\ lastCall.op = "getTether"
  /\ lastCall.element \in Elements
  /\ lastCall.element \notin DOMAIN registered[lastCall.provider]
  /\ DOMAIN tetherMapRef[lastCall.provider] # {}
  /\ lastCall.result = Undefined
  /\ getTether(tetherMapRef[lastCall.provider], lastCall.element) = Undefined

\* C4: registerTether with a null or undefined element raises nothing,
\* returns nothing and leaves every store as it was.
C4_NullElementNoOp ==
  [][\A m \in TetherRecords :
       (/\ lastCall'.op = "registerTether"
        /\ lastCall'.element \in {Null, Undefined}
        /\ CallRegisterTether(ChildrenPlace(lastCall'.provider), lastCall'.element, m))
         => /\ ~lastCall'.threw
            /\ lastCall'.result = Undefined
            /\ tetherMapRef' = tetherMapRef]_vars

\* registerTether has just been called with null on a provider holding a
\* record, and did not throw.
C4_Witness ==
  /\ lastCall.op = "registerTether"
  /\ lastCall.element = Null
  /\ ~lastCall.threw
  /\ DOMAIN tetherMapRef[lastCall.provider] # {}

\* C5: useTetherContext outside every provider, called directly or by
\* rendering a wrapped component, throws its error; no ref callback is
\* created, the wrapped component is not rendered, no store changes.
C5_ThrowsOutsideProvider ==
  [][/\ \A i \in Instances, props \in IncomingProps :
          (/\ inst[i].phase = "new"
           /\ (lastCall'.op = "render" \/ lastCall' = lastCall)
           /\ RenderMount(i, <<>>, props))
            => /\ lastCall'.op = "render"
               /\ lastCall'.threw
               /\ lastCall'.error = "useTetherContext must be used within a TetherProvider"
               /\ inst'[i] = NoInstance
               /\ UNCHANGED <<tetherMapRef, registered, inst>>
     /\ lastCall'.op \in {"getTether", "useTetherContext"}
          => \A e \in ElementArgs :
               CallGetTether(<<>>, e)
                 => /\ lastCall'.op = "useTetherContext"
                    /\ lastCall'.threw
                    /\ lastCall'.error = "useTetherContext must be used within a TetherProvider"
                    /\ lastCall'.result = Undefined
                    /\ UNCHANGED <<tetherMapRef, registered, inst>>
     /\ lastCall'.op \in {"registerTether", "useTetherContext"}
          => \A e \in ElementArgs, m \in TetherRecords :
               CallRegisterTether(<<>>, e, m)
                 => /\ lastCall'.op = "useTetherContext"
                    /\ lastCall'.threw
                    /\ lastCall'.error = "useTetherContext must be used within a TetherProvider"
                    /\ UNCHANGED <<tetherMapRef, registered, inst>>]_vars

\* A render of a wrapped component outside every provider has just thrown
\* while a provider holding a record is mounted elsewhere.
C5_Witness ==
  /\ lastCall.op = "render"
  /\ lastCall.threw
  /\ lastCall.error = "useTetherContext must be used within a TetherProvider"
  /\ \E p \in mounted : DOMAIN tetherMapRef[p] # {}
  /\ \E i \in Instances : inst[i] = NoInstance

\* C6: a registerTether through provider P's accessor changes what no other
\* provider Q returns from getTether, for any element.
C6_ProviderIsolation ==
  [][\A m \in TetherRecords :
       (/\ lastCall'.op = "registerTether"
        /\ CallRegisterTether(ChildrenPlace(lastCall'.provider), lastCall'.element, m))
         => \A q \in Providers \ {lastCall'.provider} : \A x \in ElementArgs :
              getTether(tetherMapRef'[q], x) = getTether(tetherMapRef[q], x)]_vars

\* Two sibling providers hold different records for one element, and another
\* element is registered in one of them only.
C6_Witness ==
  \E e \in Elements, x \in Elements :
    /\ mounted = {"P", "Q"}
    /\ providerPlace["P"] = <<>> /\ providerPlace["Q"] = <<>>
    /\ getTether(tetherMapRef["P"], e) # Undefined
    /\ getTether(tetherMapRef["Q"], e) # Undefined
    /\ getTether(tetherMapRef["P"], e) # getTether(tetherMapRef["Q"], e)
    /\ getTether(tetherMapRef["P"], x) # Undefined
    /\ getTether(tetherMapRef["Q"], x) = Undefined

\* C7: a wrapped component under the inner of two nested providers registers
\* its element in the inner store only, and the inner store never returns a
\* record registered only in the outer one.
C7_NestedNoFallback ==
  /\ \A i \in Instances :
       (inst[i].phase = "committed" /\ inst[i].place = <<"P", "Q">>)
         => /\ getTether(tetherMapRef["Q"], inst[i].element) # Undefined
            /\ getTether(tetherMapRef["P"], inst[i].element) = Undefined
  /\ \A e \in Elements :
       (/\ providerPlace["Q"] = <<"P">>
        /\ e \in DOMAIN registered["P"]
        /\ e \notin DOMAIN registered["Q"])
         => getTether(tetherMapRef["Q"], e) = Undefined

\* One wrapped component is mounted under the inner provider and another
\* directly under the outer one.
C7_Witness ==
  \E i \in Instances, j \in Instances :
    /\ inst[i].phase = "committed" /\ inst[i].place = <<"P", "Q">>
    /\ inst[j].phase = "committed" /\ inst[j].place = <<"P">>
    /\ getTether(tetherMapRef["Q"], inst[i].element) = ExpectedRecord(inst[i].props)
    /\ getTether(tetherMapRef["P"], inst[j].element) = ExpectedRecord(inst[j].props)
    /\ getTether(tetherMapRef["Q"], inst[j].element) = Undefined

\* C8: when a wrapped component rendered with props P and tetherMetadata M is
\* mounted and its root element attached, getTether(element) on its provider
\* returns props P without the tetherMetadata key, and metadata M.
C8_RegistrationOnMount ==
  [][\A i \in Instances :
       (inst[i].phase = "rendered" /\ inst[i].element = Null /\ Commit(i))
         => /\ inst'[i].element \in Elements
            /\ getTether(tetherMapRef'[Enclosing(inst[i].place)], inst'[i].element)
                 = ExpectedRecord(inst[i].props)]_vars

\* The README component is mounted: label 'Hello World', color '#ff6b6b',
\* metadata userId 123 and category 'greeting'.
C8_Witness ==
  \E i \in Instances :
    /\ inst[i].phase = "committed"
    /\ inst[i].props = WithMetadata([label |-> "Hello World", color |-> "#ff6b6b"],
                                    UserMeta(123, "greeting"))
    /\ LET got == getTether(StoreOf(i), inst[i].element) IN
         /\ got # Undefined
         /\ DOMAIN got.props = {"label", "color"}
         /\ got.props["label"] = "Hello World"
         /\ got.props["color"] = "#ff6b6b"
         /\ got.metadata.userId = 123
         /\ got.metadata.category = "greeting"

\* C9: once the re-render of a mounted wrapped component is committed, with
\* the same root element, getTether(element) returns the record built from
\* the new props and metadata.
C9_NoStaleAfterUpdate ==
  [][/\ \A i \in Instances :
       (inst[i].phase = "rendered" /\ inst[i].element # Null /\ Commit(i))
         => /\ inst'[i].element = inst[i].element
            /\ getTether(tetherMapRef'[Enclosing(inst[i].place)], inst[i].element)
                 = ExpectedRecord(inst[i].props)
     /\ \A i \in Instances :
          (inst[i].phase = "committed" /\ inst'[i].phase = "committed")
            => getTether(tetherMapRef'[Enclosing(inst'[i].place)], inst'[i].element)
                 = ExpectedRecord(inst'[i].props)]_vars

\* A re-render of a mounted component has been committed and the store holds
\* the record of the props of that re-render.
C9_Witness ==
  \E i \in Instances :
    /\ inst[i].phase = "committed"
    /\ inst[i].rerendered
    /\ inst[i].props = [k \in {"label"} |-> "Test Label"]
    /\ getTether(StoreOf(i), inst[i].element) = ExpectedRecord(inst[i].props)

\* C10: the wrapped component receives every prop but tetherMetadata, values
\* unchanged, plus the ref; no registered record's props hold tetherMetadata.
C10_PropPartition ==
  /\ \A i \in Instances :
       inst[i].phase \in {"rendered", "committed"}
         => /\ DOMAIN inst[i].componentProps
                 = (DOMAIN inst[i].props \ {"tetherMetadata"}) \cup {"ref"}
            /\ \A k \in DOMAIN inst[i].props \ {"tetherMetadata"} :
                 inst[i].componentProps[k] = inst[i].props[k]
            /\ inst[i].componentProps["ref"] = inst[i].memo
  /\ \A p \in Providers : \A e \in DOMAIN tetherMapRef[p] :
       "tetherMetadata" \notin DOMAIN tetherMapRef[p][e].props

\* A component given a tetherMetadata prop is mounted and registered.
C10_Witness ==
  \E i \in Instances :
    /\ inst[i].phase = "committed"
    /\ "tetherMetadata" \in DOMAIN inst[i].props
    /\ "label" \in DOMAIN inst[i].componentProps
    /\ inst[i].element \in DOMAIN StoreOf(i)

\* C11: a wrapped component mounted without a tetherMetadata prop still has a
\* record registered for its root element: the record is present, its
\* metadata is undefined and its props are the forwarded props.
C11_NoMetadataStillRegistered ==
  \A i \in Instances :
    (inst[i].phase = "committed" /\ "tetherMetadata" \notin DOMAIN inst[i].props)
      => LET got == getTether(StoreOf(i), inst[i].element) IN
           /\ got # Undefined
           /\ got.metadata = Undefined
           /\ DOMAIN got.props = DOMAIN inst[i].componentProps \ {"ref"}
           /\ \A k \in DOMAIN got.props : got.props[k] = inst[i].componentProps[k]

\* A component given only a label has been mounted, never re-rendered, and
\* its element has a record without metadata.
C11_Witness ==
  \E i \in Instances :
    /\ inst[i].phase = "committed"
    /\ ~inst[i].rerendered
    /\ inst[i].props = [k \in {"label"} |-> "Test Label"]
    /\ getTether(StoreOf(i), inst[i].element) # Undefined
    /\ getTether(StoreOf(i), inst[i].element).metadata = Undefined
    /\ getTether(StoreOf(i), inst[i].element).props["label"] = "Test Label"

\* C12: when several wrapped instances are mounted under one provider, each
\* with its own props and metadata, their root elements are distinct and
\* getTether on each element returns exactly that instance's props and
\* metadata, in whatever order the ref callbacks ran.
C12_IndependentInstances ==
  \A i \in Instances : \A j \in Instances \ {i} :
    (/\ inst[i].phase = "committed" /\ inst[j].phase = "committed"
     /\ Enclosing(inst[i].place) = Enclosing(inst[j].place))
      => LET store == StoreOf(i) IN
           /\ inst[i].element # inst[j].element
           /\ getTether(store, inst[i].element) = ExpectedRecord(inst[i].props)
           /\ getTether(store, inst[j].element) = ExpectedRecord(inst[j].props)
           /\ inst[i].props # inst[j].props
                => getTether(store, inst[i].element) # getTether(store, inst[j].element)

\* Two instances with different props and metadata are mounted under the
\* same provider and their elements hold different records.
C12_Witness ==
  \E i \in Instances : \E j \in Instances \ {i} :
    /\ inst[i].phase = "committed" /\ inst[j].phase = "committed"
    /\ Enclosing(inst[i].place) = Enclosing(inst[j].place)
    /\ inst[i].props # inst[j].props
    /\ tetherMetadata(inst[i].props) # tetherMetadata(inst[j].props)
    /\ getTether(StoreOf(i), inst[i].element) # getTether(StoreOf(i), inst[j].element)
    /\ getTether(StoreOf(i), inst[j].element) = ExpectedRecord(inst[j].props)

\* C13: getTether is a pure lookup: a call with any element, registered or
\* not, changes no store of any provider, and a getTether(e) that follows a
\* getTether(e) on the same provider with no registration in between returns
\* the same result.
C13_GetTetherPure ==
  [][(/\ lastCall'.op = "getTether"
      /\ CallGetTether(ChildrenPlace(lastCall'.provider), lastCall'.element))
       => /\ tetherMapRef' = tetherMapRef
          /\ \A p \in Providers : \A x \in ElementArgs :
               getTether(tetherMapRef'[p], x) = getTether(tetherMapRef[p], x)
          /\ (/\ lastCall.op = "getTether"
              /\ lastCall.provider = lastCall'.provider
              /\ lastCall.element = lastCall'.element)
               => lastCall'.result = lastCall.result]_vars

\* A getTether of a registered element has returned its record and every
\* store is as the registrations left it.
C13_Witness ==
  /\ lastCall.op = "getTether"
  /\ lastCall.element \in Elements
  /\ lastCall.result # Undefined
  /\ lastCall.result = registered[lastCall.provider][lastCall.element]
  /\ tetherMapRef = registered
  /\ \E q \in Providers \ {lastCall.provider} : DOMAIN tetherMapRef[q] # {}

\* C14: the store never keeps an element alive: a registered element that is
\* detached from the rendered tree can be reclaimed once nothing else refers
\* to it, and the entry of a reclaimed element is in no store, with no
\* removal operation involved.
C14_StoreHoldsElementsWeakly ==
  /\ \A i \in Instances :
       (/\ inst[i].phase = "unmounted"
        /\ \E p \in Providers : inst[i].element \in DOMAIN tetherMapRef[p])
         => ENABLED Reclaim(i)
  /\ \A i \in Instances :
       inst[i].phase = "reclaimed"
         => \A p \in Providers : inst[i].element \notin DOMAIN tetherMapRef[p]

\* The element of an unmounted instance has been reclaimed after it was
\* registered, while another instance's element is still registered.
C14_Witness ==
  \E i \in Instances : \E j \in Instances \ {i} :
    /\ inst[i].phase = "reclaimed"
    /\ inst[i].element \in DOMAIN registered[Enclosing(inst[i].place)]
    /\ inst[i].element \notin DOMAIN StoreOf(i)
    /\ inst[j].phase = "committed"
    /\ inst[j].element \in DOMAIN StoreOf(j)

\* C15: the component returned by withTether(W) has displayName
\* 'withTether(N)', N being W.displayName when set and non-empty, otherwise
\* W.name when set and non-empty, otherwise 'Component'.
C15_DisplayName ==
  \A h \in hocs :
    LET W == h.wrapped
        N == IF W.displayName.type = "string" /\ W.displayName.value # ""
               THEN W.displayName.value
               ELSE IF W.name.type = "string" /\ W.name.value # ""
                 THEN W.name.value
                 ELSE "Component"
    IN /\ h.displayName.type = "string"
       /\ h.displayName.value = "withTether(" \o N \o ")"
       /\ (W.kind = "forwardRef" /\ W.displayName = String("SimpleBox"))
            => h.displayName.value = "withTether(SimpleBox)"
       /\ (W.kind = "forwardRef" /\ W.displayName = Undefined)
            => h.displayName.value = "withTether(Component)"

\* A forwardRef component without displayName and a function component with
\* an empty displayName have been wrapped.
C15_Witness ==
  /\ \E h \in hocs : /\ h.wrapped.kind = "forwardRef"
                     /\ h.wrapped.displayName = Undefined
                     /\ h.displayName.value = "withTether(Component)"
  /\ \E h \in hocs : /\ h.wrapped.kind = "function"
                     /\ h.wrapped.displayName = String("")
                     /\ h.wrapped.name = String("Box")
                     /\ h.displayName.value = "withTether(Box)"

\* C16: the record getTether returns for the root element of a mounted
\* wrapped component has a `component` field holding the wrapped component
\* type, besides props and metadata.
C16_RecordHasComponent ==
  \A i \in Instances :
    inst[i].phase = "committed"
      => LET got == getTether(StoreOf(i), inst[i].element) IN
           /\ got # Undefined
           /\ "props" \in DOMAIN got
           /\ "metadata" \in DOMAIN got
           /\ "component" \in DOMAIN got
           /\ got["component"] \in WrappedComponents

\* C17: a registerTether(e, m) on provider P changes only P's entry for e:
\* getTether(x) on P is unchanged for every other element x, distinct
\* elements never clobber one another's entry, and the store of every other
\* provider is unchanged.
C17_RegistrationFrame ==
  [][\A m \in TetherRecords :
       (/\ lastCall'.op = "registerTether"
        /\ CallRegisterTether(ChildrenPlace(lastCall'.provider), lastCall'.element, m))
         => /\ \A x \in ElementArgs \ {lastCall'.element} :
                 getTether(tetherMapRef'[lastCall'.provider], x)
                   = getTether(tetherMapRef[lastCall'.provider], x)
            /\ DOMAIN tetherMapRef'[lastCall'.provider]
                 \subseteq DOMAIN tetherMapRef[lastCall'.provider] \cup {lastCall'.element}
            /\ \A q \in Providers \ {lastCall'.provider} :
                 tetherMapRef'[q] = tetherMapRef[q]]_vars

\* A record has just been registered for one element on a provider that
\* holds a different record for another element.
C17_Witness ==
  \E x \in Elements :
    /\ lastCall.op = "registerTether"
    /\ lastCall.element \in Elements
    /\ x # lastCall.element
    /\ getTether(tetherMapRef[lastCall.provider], x) # Undefined
    /\ getTether(tetherMapRef[lastCall.provider], lastCall.element) # Undefined
    /\ getTether(tetherMapRef[lastCall.provider], x)
         # getTether(tetherMapRef[lastCall.provider], lastCall.element)

\* C18: committing a re-render of a mounted wrapped component whose remaining
\* props and tetherMetadata are those already registered for its element
\* leaves getTether(element) and every other entry as they were; and
\* registerTether(e, m) applied twice yields the store that applying it once
\* yields, for the initial stores and for every store a step produces.
C18_Idempotence ==
  [][/\ \A i \in Instances :
          (/\ inst[i].phase = "rendered"
           /\ inst[i].element # Null
           /\ getTether(StoreOf(i), inst[i].element) # Undefined
           /\ getTether(StoreOf(i), inst[i].element).props
                = ExpectedRecord(inst[i].props).props
           /\ getTether(StoreOf(i), inst[i].element).metadata
                = ExpectedRecord(inst[i].props).metadata
           /\ Commit(i))
            => /\ tetherMapRef' = tetherMapRef
               /\ getTether(tetherMapRef'[Enclosing(inst[i].place)], inst[i].element)
                    = ExpectedRecord(inst[i].props)
     /\ \A p \in Providers :
          (tetherMapRef'[p] # tetherMapRef[p] \/ mounted = {})
            => \A e \in ElementArgs, m \in TetherRecords :
                 LET once == registerTether(tetherMapRef'[p], e, m) IN
                   registerTether(once.map, e, m) = once]_vars

\* A mounted component has been rendered again with the props and metadata
\* its element is registered with, and the re-render awaits its commit,
\* beside another registered element.
C18_Witness ==
  \E i \in Instances : \E j \in Instances \ {i} :
    /\ inst[i].phase = "rendered"
    /\ inst[i].rerendered
    /\ inst[i].element # Null
    /\ inst[i].componentProps["ref"].fresh
    /\ "tetherMetadata" \in DOMAIN inst[i].props
    /\ getTether(StoreOf(i), inst[i].element) = ExpectedRecord(inst[i].props)
    /\ inst[j].phase = "committed"
    /\ inst[j].element \in DOMAIN StoreOf(j)

\* C19: the store of a provider instance is created empty when the instance
\* mounts, leaving every other store alone, and is out of reach once the
\* instance has unmounted; an instance mounted after an earlier one was
\* unmounted returns absent for every element, those registered in the
\* earlier instance included.
C19_StoreLifecycle ==
  [][/\ \A p \in Providers : \A place \in ProviderPlaces(p) :
          (p \notin mounted /\ p \in mounted' /\ MountProvider(p, place))
            => /\ \A e \in ElementArgs : getTether(tetherMapRef'[p], e) = Undefined
               /\ \A q \in Providers \ {p} : tetherMapRef'[q] = tetherMapRef[q]
     /\ \A p \in Providers :
          (p \in mounted /\ p \notin mounted' /\ UnmountProvider(p))
            => \A place \in Places \ {<<>>} :
                 (\E q \in mounted' : Append(providerPlace'[q], q) = place)
                   => useContext(place) \in mounted' \ {p}]_vars

\* An element registered under an earlier instance of a provider is looked up
\* in the instance mounted after it and is absent, while the later instance
\* holds the record of a component mounted under it.
C19_Witness ==
  \E i \in Instances : \E j \in Instances \ {i} :
    /\ inst[i].phase = "unmounted"
    /\ inst[i].element # Null
    /\ Enclosing(inst[i].place) \in mounted
    /\ lastCall.op = "getTether"
    /\ lastCall.provider = Enclosing(inst[i].place)
    /\ lastCall.element = inst[i].element
    /\ lastCall.result = Undefined
    /\ getTether(StoreOf(i), inst[i].element) = Undefined
    /\ inst[j].phase = "committed"
    /\ Enclosing(inst[j].place) = Enclosing(inst[i].place)
    /\ getTether(StoreOf(j), inst[j].element) = ExpectedRecord(inst[j].props)

\* C20: over any sequence of mounts, updates and unmounts of wrapped
\* components under a provider, in every state where no commit is pending,
\* the provider's store maps the root element of every mounted instance to a
\* record whose props are the instance's current remaining props and whose
\* metadata is its current tetherMetadata.
C20_WrapperInvariant ==
  (\A i \in Instances : inst[i].phase # "rendered")
    => \A i \in Instances :
         inst[i].phase = "committed"
           => /\ inst[i].element \in DOMAIN StoreOf(i)
              /\ DOMAIN StoreOf(i)[inst[i].element] = {"props", "metadata"}
              /\ StoreOf(i)[inst[i].element].props
                   = [k \in DOMAIN inst[i].props \ {"tetherMetadata"} |-> inst[i].props[k]]
              /\ StoreOf(i)[inst[i].element].metadata
                   = (IF "tetherMetadata" \in DOMAIN inst[i].props
                        THEN inst[i].props["tetherMetadata"] ELSE Undefined)

\* No commit is pending, one instance is mounted after an update and another
\* one has been unmounted, its record still in the store.
C20_Witness ==
  \E i \in Instances : \E j \in Instances \ {i} :
    /\ \A k \in Instances : inst[k].phase # "rendered"
    /\ inst[i].phase = "committed"
    /\ inst[i].rerendered
    /\ StoreOf(i)[inst[i].element] = ExpectedRecord(inst[i].props)
    /\ inst[j].phase = "unmounted"
    /\ inst[j].element \in DOMAIN StoreOf(j)
    /\ Enclosing(inst[j].place) = Enclosing(inst[i].place)

\* C21: when the wrapper's ref callback is invoked with null, on unmount or
\* when the old callback is released during an update, it makes no
\* registerTether call and no entry is removed; getTether keeps returning
\* the last registered record for the element of an unmounted component
\* that is still referenced.
C21_DetachDoesNotUnregister ==
  [][/\ \A i \in Instances :
          (inst[i].phase \in {"rendered", "committed"} /\ inst'[i].phase = "unmounted")
            => /\ InvokeRef([maps |-> tetherMapRef, reg |-> registered],
                            inst[i].attached, Null).calls = 0
               /\ tetherMapRef' = tetherMapRef
               /\ registered' = registered
     /\ \A i \in Instances :
          (inst[i].phase = "rendered" /\ inst[i].element # Null /\ Commit(i))
            => /\ InvokeRef([maps |-> tetherMapRef, reg |-> registered],
                            inst[i].attached, Null).calls = 0
               /\ InvokeRef([maps |-> tetherMapRef, reg |-> registered],
                            inst[i].attached, Null).maps = tetherMapRef
               /\ \A p \in Providers :
                    DOMAIN tetherMapRef[p] \subseteq DOMAIN tetherMapRef'[p]
     /\ \A i \in Instances :
          (inst'[i].phase = "unmounted" /\ inst'[i].element # Null)
            => /\ getTether(tetherMapRef'[Enclosing(inst'[i].place)], inst'[i].element)
                    # Undefined
               /\ getTether(tetherMapRef'[Enclosing(inst'[i].place)], inst'[i].element)
                    = registered'[Enclosing(inst'[i].place)][inst'[i].element]]_vars

\* A component has been unmounted and its element still has its last record,
\* beside a mounted component whose update has been committed.
C21_Witness ==
  \E i \in Instances : \E j \in Instances \ {i} :
    /\ inst[i].phase = "unmounted"
    /\ inst[i].element # Null
    /\ getTether(StoreOf(i), inst[i].element) # Undefined
    /\ getTether(StoreOf(i), inst[i].element)
         = registered[Enclosing(inst[i].place)][inst[i].element]
    /\ "color" \in DOMAIN getTether(StoreOf(i), inst[i].element).props
    /\ inst[j].phase = "committed"
    /\ inst[j].rerendered

\* C22: a re-render of a mounted provider instance neither replaces nor
\* clears its store: getTether returns every record registered before it
\* unchanged, also once the wrapped components it made render again have
\* been committed, and a callback holding the accessors obtained before the
\* re-render writes to the store that the accessors obtained after it read.
C22_ProviderRerenderKeepsStore ==
  [][/\ \A p \in Providers :
          (p \in mounted /\ RerenderProvider(p))
            => /\ \A q \in Providers : \A e \in ElementArgs :
                    getTether(tetherMapRef'[q], e) = getTether(tetherMapRef[q], e)
               /\ \A e \in DOMAIN registered[p] :
                    getTether(tetherMapRef'[p], e) = registered[p][e]
               /\ useContext(ChildrenPlace(p)) = p
               /\ \A i \in Instances :
                    (inst[i].phase = "committed" /\ useContext(inst[i].place) = p)
                      => LET after == InvokeRef([maps |-> tetherMapRef', reg |-> registered'],
                                                inst[i].attached, inst[i].element)
                         IN getTether(after.maps[useContext(inst'[i].place)],
                                      inst[i].element)
                              = inst[i].attached.fn.finalMetadata
     /\ \A i \in Instances :
          (/\ inst[i].phase = "rendered" /\ inst[i].element # Null
           /\ inst'[i].phase = "committed")
            => /\ tetherMapRef' = tetherMapRef
               /\ getTether(tetherMapRef'[Enclosing(inst[i].place)], inst[i].element)
                    = registered[Enclosing(inst[i].place)][inst[i].element]]_vars

\* A provider has rendered again after a component was mounted under it, the
\* component's render has been committed, and the store still returns the
\* record registered at the mount, beside another mounted component.
C22_Witness ==
  \E i \in Instances : \E j \in Instances \ {i} :
    /\ inst[i].phase = "committed"
    /\ inst[i].rerendered
    /\ "tetherMetadata" \in DOMAIN inst[i].props
    /\ getTether(StoreOf(i), inst[i].element) = ExpectedRecord(inst[i].props)
    /\ inst[j].phase = "rendered"
    /\ inst[j].rerendered
    /\ Enclosing(inst[j].place) = Enclosing(inst[i].place)
    /\ getTether(StoreOf(j), inst[j].element) = ExpectedRecord(inst[j].props)

\* C23: the metadata field of the record registered for a mounted wrapped
\* component is the value passed as tetherMetadata, whatever it is: null, 0,
\* false and the empty string are stored as they are, and the field is
\* undefined only when tetherMetadata was left out or passed as undefined.
C23_MetadataVerbatim ==
  \A i \in Instances :
    inst[i].phase = "committed"
      => LET got == getTether(StoreOf(i), inst[i].element)
             given == "tetherMetadata" \in DOMAIN inst[i].props
         IN /\ got # Undefined
            /\ \A m \in MetadataValues :
                 (given /\ inst[i].props["tetherMetadata"] = m) => got.metadata = m
            /\ (got.metadata = Undefined)
                 <=> (~given \/ inst[i].props["tetherMetadata"] = Undefined)
            /\ inst[i].attached.fn.finalMetadata.metadata = got.metadata

\* One component was mounted with null as its metadata and its record holds
\* null; another was mounted with 0 (or false, or the empty string) and its
\* record holds that value.
C23_Witness ==
  \E i \in Instances : \E j \in Instances \ {i} :
    /\ inst[i].phase = "committed"
    /\ "tetherMetadata" \in DOMAIN inst[i].props
    /\ inst[i].props["tetherMetadata"] = Null
    /\ getTether(StoreOf(i), inst[i].element).metadata = Null
    /\ inst[j].phase = "committed"
    /\ "tetherMetadata" \in DOMAIN inst[j].props
    /\ inst[j].props["tetherMetadata"] \in {Number(0), Boolean(FALSE), String("")}
    /\ getTether(StoreOf(j), inst[j].element).metadata = inst[j].props["tetherMetadata"]

\* C24: getTether called with null or with undefined returns undefined, does
\* not throw and changes no store, whatever the stores hold: no store ever
\* has an entry for null or undefined, and the call leaves every store and
\* every later lookup as it was.
C24_GetTetherOfNothing ==
  [][/\ \A p \in Providers : \A e \in {Null, Undefined} :
          /\ e \notin DOMAIN tetherMapRef[p]
          /\ getTether(tetherMapRef[p], e) = Undefined
     /\ (/\ lastCall'.op = "getTether"
         /\ lastCall'.element \in {Null, Undefined}
         /\ CallGetTether(ChildrenPlace(lastCall'.provider), lastCall'.element))
          => /\ ~lastCall'.threw
             /\ lastCall'.error = ""
             /\ lastCall'.result = Undefined
             /\ tetherMapRef' = tetherMapRef
             /\ registered' = registered
             /\ \A x \in Elements :
                  getTether(tetherMapRef'[lastCall'.provider], x)
                    = getTether(tetherMapRef[lastCall'.provider], x)]_vars

\* getTether(null) has been called on a provider whose store holds a record
\* for every element; it returned undefined and the records are still there.
C24_Witness ==
  /\ lastCall.op = "getTether"
  /\ lastCall.element = Null
  /\ ~lastCall.threw
  /\ lastCall.result = Undefined
  /\ DOMAIN tetherMapRef[lastCall.provider] = Elements
  /\ \A x \in Elements : getTether(tetherMapRef[lastCall.provider], x) # Undefined
====
